---- MODULE Spec2Model ----
(***************************************************************************)
(* A model of the two attack bases of EdisonLeeeee/GREAT:                  *)
(*   - PRBCDAttack (src/greatx/attack/targeted/rbcd_attack.py): the epoch  *)
(*     loop, the best-state snapshot used for early stopping, the          *)
(*     resampling schedule and the application of the flipped edges;       *)
(*   - InjectionAttacker                                                   *)
(*     (src/graphwar/attack/injection/injection_attacker.py): the          *)
(*     reset/attack life cycle, the injected node/edge/feature ledger and  *)
(*     the lru_cache'd data() method.                                      *)
(* Tensors are finite sequences of small integers; the external classifier *)
(* (loss, gradient, metric) is a nondeterministic choice.                  *)
(***************************************************************************)
EXTENDS Integers, Sequences, FiniteSets, TLC

VARIABLES prbcd, pret, ori_data, inj, cache, ret, solo, first, fresh

vars == <<prbcd, pret, ori_data, inj, cache, ret, solo, first, fresh>>

(***************************************************************************)
(* Bounds of the model.                                                    *)
(***************************************************************************)
\* epochs and epochs_resampling are drawn from 0 .. MaxEpochs
MaxEpochs == 3
\* the classifier's metric is drawn from 0 .. MaxMetric
MaxMetric == 1
\* num_budgets of a PRBCD attack is drawn from 1 .. MaxBudget
MaxBudget == 2
\* relaxed edge weights live on the grid 0 .. WeightOne (WeightOne is 1.0)
WeightOne == 1
\* the studies of inject_node and of the base graph follow the injected-node
\* list up to MaxInjected entries
MaxInjected == 2

(***************************************************************************)
(* The base graph (owned by the caller, read only).                        *)
(***************************************************************************)
\* ori_data.x: one row of features per node
BaseX == <<<<1, 2>>, <<2, 1>>, <<1, 1>>>>

\* ori_data.edge_index
BaseEdges == {<<0, 1>>, <<1, 0>>, <<1, 2>>, <<2, 1>>, <<2, 0>>}

NumNodes == Len(BaseX)

NumFeats == Len(BaseX[1])

Nodes == 0 .. (NumNodes - 1)

\* the test on the transposed entry, adjacency_matrix[v, u] > 0
AdjacentReversed(u, v) == <<v, u>> \in BaseEdges

\* self.adjacency_matrix[u, v] > 0
Adjacent(u, v) == <<u, v>> \in BaseEdges

(***************************************************************************)
(* Generic helpers: Python's None/Optional, lists and insertion-ordered    *)
(* dicts.                                                                  *)
(***************************************************************************)
None == <<>>

Some(x) == <<x>>

RECURSIVE SumSeq(_)
SumSeq(s) == IF s = <<>> THEN 0 ELSE Head(s) + SumSeq(Tail(s))

RECURSIVE SetToSortedSeq(_)
SetToSortedSeq(S) ==
  IF S = {} THEN <<>>
  ELSE LET m == CHOOSE x \in S : \A y \in S : x <= y
       IN <<m>> \o SetToSortedSeq(S \ {m})

Range(s) == {s[i] : i \in DOMAIN s}

\* a dict is a sequence of [key, it] entries in insertion order
DictKeys(d) == [i \in DOMAIN d |-> d[i].key]

DictHas(d, k) == \E i \in DOMAIN d : d[i].key = k

\* d[k] = v: an existing key keeps its position and gets the new value
DictPut(d, k, v) ==
  IF DictHas(d, k)
  THEN [i \in DOMAIN d |-> IF d[i].key = k THEN [key |-> k, it |-> v] ELSE d[i]]
  ELSE Append(d, [key |-> k, it |-> v])

(***************************************************************************)
(* PRBCDAttack: the virtual edge space of a targeted attack.               *)
(***************************************************************************)
\* the attacked node
Target == 0

\* linear indices of the candidate edges (Target, v), v # Target
Candidates == 1 .. (NumNodes - 1)

\* the endpoints of candidate i (block_edge_index column of linear index i)
CandEdge(i) == <<Target, i>>

EdgeIndexOf(block) == [i \in DOMAIN block |-> CandEdge(block[i])]

LossNames == {"mce", "prob_margin", "tanh_margin"}

(***************************************************************************)
(* Collaborators of PRBCDAttack that live in RBCDAttack, TargetedAttacker  *)
(* and greatx.attack.untargeted.utils.                                     *)
(***************************************************************************)
Clip(x) == IF x < 0 THEN 0 ELSE IF x > WeightOne THEN WeightOne ELSE x

Shifted(w, mu) == [i \in DOMAIN w |-> Clip(w[i] - mu)]

\* project(num_budgets, w, eps): clip(w - mu, 0, 1) for the least shift mu
\* whose clipped sum is within the budget (mu = 0 when w is feasible)
Project(budget, w) ==
  LET ok(mu) == SumSeq(Shifted(w, mu)) <= budget * WeightOne
      mu == CHOOSE m \in 0 .. (WeightOne + 1) :
              ok(m) /\ \A k \in 0 .. (m - 1) : ~ok(k)
  IN Shifted(w, mu)

\* outcomes of sample_random_block: a non-empty, deduplicated, sorted block of
\* at most block_size candidates
InitialBlocks(block_size) ==
  {SetToSortedSeq(S) : S \in {T \in SUBSET Candidates :
                                 T # {} /\ Cardinality(T) <= block_size}}

\* outcomes of resample_random_block: the lowest-weight entries (all entries of
\* weight <= eps, and at least half of the block) are dropped, the retained
\* entries keep their weights and fresh candidates enter with weight eps.
\* An outcome is a pair <<block, weights>>.
ResampledBlocks(block, w, block_size) ==
  LET n == Len(block)
      zeros == {i \in 1 .. n : w[i] = 0}
      least == IF Cardinality(zeros) < n \div 2 THEN n \div 2
               ELSE Cardinality(zeros)
      drops == {D \in SUBSET (1 .. n) :
                  /\ Cardinality(D) = least
                  /\ zeros \subseteq D
                  /\ \A i \in D : \A j \in (1 .. n) \ D : w[i] <= w[j]}
      kept(D) == {block[i] : i \in (1 .. n) \ D}
      weightOf(D, c) == IF c \in kept(D)
                        THEN w[CHOOSE i \in 1 .. n : block[i] = c]
                        ELSE 0
  IN {LET b == SetToSortedSeq(kept(D) \cup F)
      IN <<b, [i \in DOMAIN b |-> weightOf(D, b[i])]>> :
        <<D, F>> \in {x \in drops \X SUBSET Candidates :
                       /\ x[2] \cap kept(x[1]) = {}
                       /\ kept(x[1]) \cup x[2] # {}
                       /\ Cardinality(kept(x[1]) \cup x[2]) <= block_size}}

\* outcomes of sample_final_edges: the block edges of a sampled set of positions
FinalSamples(edge_index) ==
  {[i \in DOMAIN s |-> edge_index[s[i]]] :
     s \in {SetToSortedSeq(S) : S \in SUBSET (DOMAIN edge_index)}}

\* Attacker._check_budget
CheckBudgetOk(num_budgets, max_perturbations) ==
  num_budgets > 0 /\ num_budgets <= max_perturbations

(***************************************************************************)
(* PRBCDAttack: state.  prbcd is the attacker object, pret the outcome of  *)
(* the last call or loop iteration on it.                                  *)
(***************************************************************************)
\* float('-Inf'): below every metric value
NegInf == None

\* the devices an attacker is built for
Devices == {"cpu", "cuda"}

\* _edge_index: self._edge_index = self.edge_index (line 63) is the tensor of
\* the base graph itself, named as in HeapOf, not a copy of it.
\* has_reset_fields: whether the attributes that reset() creates
\* (current_block, block_edge_index, block_edge_weight, loss, metric,
\* best_metric, ...) exist; before the first reset() they are not set at
\* all, and reading one raises AttributeError
PNew(device) ==
  [ device |-> device,
    has_reset_fields |-> FALSE,
    _edge_index |-> None,
    is_reset |-> FALSE,
    running |-> FALSE,
    num_budgets |-> None,
    block_size |-> None,
    loss |-> None,
    metric |-> None,
    epochs_resampling |-> None,
    with_early_stopping |-> TRUE,
    epochs |-> 0,
    step |-> 0,
    current_block |-> <<>>,
    block_edge_index |-> <<>>,
    block_edge_weight |-> <<>>,
    best_metric |-> NegInf,
    has_best |-> FALSE,
    best_block |-> <<>>,
    best_edge_index |-> <<>>,
    best_pert_edge_weight |-> <<>>,
    best_shared |-> FALSE,
    best_fresh |-> FALSE,
    added_edges |-> <<>>,
    removed_edges |-> <<>>,
    attack_statistics |-> 0,
    calls |-> <<>>,
    metric0 |-> None ]

\* weights: the projected weights of the epoch; flipped: what the final
\* sampler returned
PRet(op, result, epoch, metric, weights, flipped) ==
  [op |-> op, result |-> result, epoch |-> epoch, metric |-> metric,
   weights |-> weights, flipped |-> flipped]

\* PRBCDAttack.reset.  epochs and step (locals of attack) and the observers
\* calls and metric0 describe the last attack call until the next reset.
PResetState(p) ==
  [p EXCEPT !.is_reset = TRUE,
            !.has_reset_fields = TRUE,
            !._edge_index = Some("ori_edge_index"),
            !.num_budgets = None,
            !.added_edges = <<>>,
            !.removed_edges = <<>>,
            !.epochs = 0,
            !.step = 0,
            !.calls = <<>>,
            !.metric0 = None,
            !.current_block = <<>>,
            !.block_edge_index = <<>>,
            !.block_edge_weight = <<>>,
            !.best_shared = FALSE,
            !.loss = None,
            !.metric = None,
            !.best_metric = NegInf,
            !.attack_statistics = 0]

PReset ==
  /\ ~prbcd.running
  /\ prbcd' = PResetState(prbcd)
  /\ pret' = PRet("reset", "ok", None, None, <<>>, <<>>)
  /\ UNCHANGED <<ori_data, inj, cache, ret, solo, first, fresh>>

\* the defaults of the signature of PRBCDAttack.attack (lines 74-90), with
\* no coefficient given in **kwargs
PDefaultArgs ==
  [num_budgets |-> None, block_size |-> 250000, epochs |-> 125,
   epochs_resampling |-> 100, loss |-> "tanh_margin", metric |-> "none",
   with_early_stopping |-> "unset"]

\* the arguments of PRBCDAttack.attack, block_size, loss and metric left
\* out: every budget with an attack of at most one epoch and the budget 1
\* with MaxEpochs epochs, under every resampling schedule and early stopping
\* choice; and each of num_budgets, block_size, loss and metric varied on its
\* own in an attack of one epoch.  num_budgets is given in every call.
PAttackArgs ==
  LET plain(budgets, epochs) ==
        [num_budgets : budgets,
         block_size : {PDefaultArgs.block_size},
         epochs : epochs,
         epochs_resampling : 0 .. MaxEpochs,
         loss : {PDefaultArgs.loss},
         metric : {PDefaultArgs.metric},
         with_early_stopping : {"yes", "no"}]
      base == [PDefaultArgs EXCEPT !.num_budgets = 1,
                                   !.epochs = 1,
                                   !.epochs_resampling = MaxEpochs - 1]
  IN plain(1 .. MaxBudget, {0, 1}) \cup plain({1}, {MaxEpochs})
       \cup {base, [base EXCEPT !.num_budgets = 0]}
       \cup {[base EXCEPT !.block_size = b] : b \in 1 .. (NumNodes - 1)}
       \cup {[base EXCEPT !.loss = l] : l \in LossNames \cup {"hinge"}}
       \cup {[base EXCEPT !.metric = m] : m \in {"callable", "mce"}}

\* the attack run next to an InjectionAttacker on the same base graph
PBaseArgs ==
  {[PDefaultArgs EXCEPT !.num_budgets = 1, !.epochs = 1,
                        !.epochs_resampling = 0]}

\* the attacks after which the caller goes on to call update,
\* get_flipped_edges and prepare
PCallerArgs ==
  [num_budgets : 1 .. MaxBudget,
   block_size : {PDefaultArgs.block_size},
   epochs : {1},
   epochs_resampling : {0, 2},
   loss : {PDefaultArgs.loss},
   metric : {PDefaultArgs.metric},
   with_early_stopping : {"yes", "no"}]

\* `assert loss in ['mce', 'prob_margin', 'tanh_margin']`
LossAccepted(loss) == loss \in LossNames

\* a selected loss function, and what self.metric holds after lines 108-111:
\* the loss function, or the caller's object as it was given (a callable, or
\* a registry name, which is a string)
LossFunction(loss) == Some(<<"function", loss>>)

MetricField(loss, metric) ==
  IF metric = "none" THEN LossFunction(loss)
  ELSE IF metric = "callable" THEN Some(<<"function", "callable">>)
  ELSE Some(<<"string", metric>>)

\* whether self.metric(prediction, self.victim_labels) can be called
MetricCallable(metric) == metric # None /\ metric[1][1] = "function"

\* self.coeffs.update(**kwargs)
CoeffsUpdate(old, kw) == IF kw = "unset" THEN old ELSE kw = "yes"

\* TargetedAttacker.attack followed by lines 98-133 and prepare(): the outcome
\* is <<result, attacker>>; the sampled initial block is the input `block`
PAttackBeginOutcome(p, a, block) ==
  IF ~p.is_reset THEN <<"RuntimeError", p>>
  ELSE IF ~CheckBudgetOk(a.num_budgets, NumNodes - 1) THEN <<"ValueError", p>>
  ELSE
    LET p1 == [p EXCEPT !.num_budgets = Some(a.num_budgets),
                        !.is_reset = FALSE,
                        !.block_size = Some(a.block_size)]
    IN IF ~LossAccepted(a.loss) THEN <<"AssertionError", p1>>
       ELSE <<"ok",
              [p1 EXCEPT !.loss = LossFunction(a.loss),
                         !.metric = MetricField(a.loss, a.metric),
                         !.epochs_resampling = Some(a.epochs_resampling),
                         !.with_early_stopping =
                            CoeffsUpdate(p.with_early_stopping, a.with_early_stopping),
                         !.epochs = a.epochs,
                         !.step = 0,
                         !.running = TRUE,
                         !.best_fresh = FALSE,
                         !.metric0 = None,
                         !.current_block = block,
                         !.block_edge_index = EdgeIndexOf(block),
                         !.block_edge_weight = [i \in DOMAIN block |-> 0],
                         !.best_shared = FALSE,
                         !.calls = <<[op |-> "sample", epoch |-> 0]>>]>>

\* the calls tried in a state: a call on an attacker that is not reset fails
\* at once whatever its arguments are, so one call stands for all of them
PCallsTried(p, args) ==
  IF p.is_reset
  THEN {<<a, block>> : a \in args, block \in InitialBlocks(NumNodes - 1)}
  ELSE {<<PDefaultArgs, <<>> >>}

PAttackBegin(args) ==
  /\ ~prbcd.running
  /\ \E c \in {x \in PCallsTried(prbcd, args) : Len(x[2]) <= x[1].block_size} :
       LET a == c[1]
           block == c[2]
       IN
       LET out == PAttackBeginOutcome(prbcd, a, block)
       IN /\ prbcd' = out[2]
          /\ pret' = PRet("attack", IF out[1] = "ok" THEN "running" ELSE out[1],
                          None, None, <<>>, <<>>)
  /\ UNCHANGED <<ori_data, inj, cache, ret, solo, first, fresh>>

\* whether a block is in place: current_block, block_edge_index and
\* block_edge_weight are tensors, not the None of reset()
HasBlock(p) == p.current_block # <<>>

\* `if metric > self.best_metric`
Improves(metric, best_metric) == best_metric = NegInf \/ metric > best_metric[1]

\* `if epoch < self.epochs_resampling - 1`
Resamples(epoch, epochs_resampling) == epoch < epochs_resampling - 1

\* a boundary one epoch late
RestoresBestLate(epoch, epochs_resampling) == epoch = epochs_resampling

\* `elif epoch == self.epochs_resampling - 1`
RestoresBest(epoch, epochs_resampling) == epoch = epochs_resampling - 1

\* `if not self.coeffs['with_early_stopping']: return scalars`
ReturnsBeforeMetric(with_early_stopping) == ~with_early_stopping

\* line 217, self.block_edge_weight.cpu().detach(), and line 241,
\* self.best_pert_edge_weight.to(self.device): on a CPU device cpu() and to()
\* return the tensor itself and detach() a tensor on the same storage, so
\* that best_pert_edge_weight and block_edge_weight are one buffer; on
\* another device they copy
SharesStorage(device) == device = "cpu"

\* lines 213-217: the best state after the metric of this epoch is known
SaveBest(p, metric) ==
  IF Improves(metric, p.best_metric)
  THEN [p EXCEPT !.best_metric = Some(metric),
                 !.best_block = p.current_block,
                 !.best_edge_index = p.block_edge_index,
                 !.best_pert_edge_weight = p.block_edge_weight,
                 !.best_shared = SharesStorage(p.device),
                 !.has_best = TRUE,
                 !.best_fresh = TRUE]
  ELSE p

\* lines 225-228: the driver's block becomes the best block, the weights a
\* clone of the best weights
RetrieveBest(p) ==
  [p EXCEPT !.current_block = p.best_block,
            !.block_edge_index = p.best_edge_index,
            !.block_edge_weight = p.best_pert_edge_weight,
            !.best_shared = FALSE]

\* lines 239-241: the driver's block becomes the best block, the weights the
\* best weights moved to the device
LoadBest(p) ==
  [p EXCEPT !.current_block = p.best_block,
            !.block_edge_index = p.best_edge_index,
            !.block_edge_weight = p.best_pert_edge_weight,
            !.best_shared = SharesStorage(p.device)]

\* RBCDAttack.update_edge_weights(num_budgets, epoch, gradient), line 174,
\* whose return value is dropped, so that it writes self.block_edge_weight
\* itself.  Its body lies outside this file: it either adds the step into the
\* tensor (in_place), and best_pert_edge_weight changes with it while it is
\* the same buffer, or assigns a new tensor to the attribute, which ends the
\* sharing.  raw: the weights after the step
UpdateEdgeWeights(p, raw, in_place) ==
  IF in_place
  THEN [p EXCEPT !.block_edge_weight = raw,
                 !.best_pert_edge_weight = IF p.best_shared THEN raw ELSE @]
  ELSE [p EXCEPT !.block_edge_weight = raw,
                 !.best_shared = FALSE]

\* the ways update_edge_weights may write: the two differ only while
\* best_pert_edge_weight is the buffer of block_edge_weight
StepWrites(p) == IF p.best_shared THEN BOOLEAN ELSE {TRUE}

\* PRBCDAttack.update(epoch, gradient, num_budgets).  raw: the weights after
\* update_edge_weights; metric: the classifier's metric on the top-k graph;
\* rs: the outcome of resample_random_block; in_place: how
\* update_edge_weights writes.  project and resample_random_block return new
\* tensors.  Before the first reset() self.block_edge_weight does not exist
\* and the step of line 174 raises AttributeError; with no block in place
\* (block_edge_weight is the None of reset()) it raises TypeError.  The
\* outcome is <<result, attacker, metric reported>>.
Update(p, epoch, num_budgets, raw, metric, rs, in_place) ==
  LET p0 == UpdateEdgeWeights(p, raw, in_place)
      p1 == [p0 EXCEPT !.block_edge_weight = Project(num_budgets, raw),
                       !.best_shared = FALSE]
  IN IF ~p.has_reset_fields THEN <<"AttributeError", p, None>>
     ELSE IF ~HasBlock(p) THEN <<"TypeError", p, None>>
     ELSE IF ReturnsBeforeMetric(p.with_early_stopping) THEN <<"ok", p1, None>>
     ELSE IF num_budgets > Len(p1.block_edge_weight)
          THEN <<"RuntimeError", p1, None>>
     ELSE IF ~MetricCallable(p.metric) THEN <<"TypeError", p1, None>>
     ELSE
       LET p2 == SaveBest(p1, metric)
       IN IF Resamples(epoch, p.epochs_resampling[1])
          THEN <<"ok",
                 [p2 EXCEPT !.current_block = rs[1],
                            !.block_edge_index = EdgeIndexOf(rs[1]),
                            !.block_edge_weight = rs[2],
                            !.best_shared = FALSE,
                            !.calls = Append(p.calls,
                                        [op |-> "resample", epoch |-> epoch])],
                 Some(metric)>>
          ELSE IF RestoresBest(epoch, p.epochs_resampling[1])
          THEN IF p2.has_best THEN <<"ok", RetrieveBest(p2), Some(metric)>>
               ELSE <<"AttributeError", p2, None>>
          ELSE <<"ok", p2, Some(metric)>>

\* the inputs of one resampling: the outcomes of resample_random_block on the
\* projected weights when update() reaches line 221, else the block as it is
ResampleChoices(p, epoch, num_budgets, raw) ==
  LET w == Project(num_budgets, raw)
  IN IF /\ HasBlock(p)
        /\ ~ReturnsBeforeMetric(p.with_early_stopping)
        /\ num_budgets <= Len(w)
        /\ MetricCallable(p.metric)
        /\ Resamples(epoch, p.epochs_resampling[1])
     THEN ResampledBlocks(p.current_block, w, p.block_size[1])
     ELSE {<<p.current_block, w>>}

\* one iteration of the loop of attack(): compute_gradients, update, statistics
PEpoch ==
  /\ prbcd.running
  /\ prbcd.step < prbcd.epochs
  /\ \E raw \in [DOMAIN prbcd.block_edge_weight -> 0 .. (WeightOne + 1)] :
     \E metric \in 0 .. MaxMetric :
     \E rs \in ResampleChoices(prbcd, prbcd.step, prbcd.num_budgets[1], raw) :
     \E in_place \in StepWrites(prbcd) :
       LET out == Update(prbcd, prbcd.step, prbcd.num_budgets[1], raw, metric,
                         rs, in_place)
       IN IF out[1] = "ok"
          THEN /\ prbcd' = [out[2] EXCEPT
                              !.step = prbcd.step + 1,
                              !.attack_statistics = prbcd.attack_statistics + 1,
                              !.metric0 = IF prbcd.step = 0 THEN out[3]
                                          ELSE prbcd.metric0]
               /\ pret' = PRet("epoch", "ok", Some(prbcd.step), out[3],
                               Project(prbcd.num_budgets[1], raw), <<>>)
          ELSE /\ prbcd' = [out[2] EXCEPT !.running = FALSE]
               /\ pret' = PRet("attack", out[1], Some(prbcd.step), None, <<>>, <<>>)
  /\ UNCHANGED <<ori_data, inj, cache, ret, solo, first, fresh>>

\* an assertion that lets every sample pass
BudgetAssertionOff(flipped, num_budgets) == TRUE

\* `assert flipped_edges.size(1) <= self.num_budgets`
BudgetAssertion(flipped, num_budgets) == Len(flipped) <= num_budgets

\* lines 153-157: each flipped edge goes to the ledger with its position
RECURSIVE ApplyFlips(_, _, _)
ApplyFlips(p, flipped, it) ==
  IF it >= Len(flipped) THEN p
  ELSE LET e == flipped[it + 1]
       IN ApplyFlips(
            IF Adjacent(e[1], e[2])
            THEN [p EXCEPT !.removed_edges = DictPut(p.removed_edges, e, it)]
            ELSE [p EXCEPT !.added_edges = DictPut(p.added_edges, e, it)],
            flipped, it + 1)

\* get_flipped_edges up to the call of the final sampler
BeforeFinalSample(p) == IF p.with_early_stopping THEN LoadBest(p) ELSE p

\* the end of attack(): get_flipped_edges, the budget assertion, the ledger
PFinish ==
  /\ prbcd.running
  /\ prbcd.step = prbcd.epochs
  /\ IF prbcd.with_early_stopping /\ ~prbcd.has_best
     THEN /\ prbcd' = [prbcd EXCEPT !.running = FALSE]
          /\ pret' = PRet("attack", "AttributeError", None, None, <<>>, <<>>)
     ELSE LET p1 == BeforeFinalSample(prbcd)
          IN \E flipped \in FinalSamples(p1.block_edge_index) :
               IF BudgetAssertion(flipped, p1.num_budgets[1])
               THEN /\ prbcd' = [ApplyFlips(p1, flipped, 0) EXCEPT !.running = FALSE]
                    /\ pret' = PRet("attack", "ok", None, None, <<>>, flipped)
               ELSE /\ prbcd' = [p1 EXCEPT !.running = FALSE]
                    /\ pret' = PRet("attack", "AssertionError", None, None, <<>>,
                                    flipped)
  /\ UNCHANGED <<ori_data, inj, cache, ret, solo, first, fresh>>

(***************************************************************************)
(* update, get_flipped_edges and prepare called by the caller between the  *)
(* attacks: the methods are public and test nothing before they act.       *)
(* epochs, step, calls and metric0 describe the loop of attack() and stay  *)
(* as they are.                                                            *)
(***************************************************************************)
\* update(epoch, gradient, 1) with epoch 0 or 1, after a step that leaves
\* every weight at 0 or at WeightOne, the metric being 0 or MaxMetric
PUpdate ==
  /\ ~prbcd.running
  /\ \E epoch \in {0, 1}, num_budgets \in {1} :
     \E raw \in [DOMAIN prbcd.block_edge_weight -> {0, WeightOne}] :
     \E metric \in {0, MaxMetric} :
     \E rs \in ResampleChoices(prbcd, epoch, num_budgets, raw) :
     \E in_place \in StepWrites(prbcd) :
       LET out == Update(prbcd, epoch, num_budgets, raw, metric, rs, in_place)
       IN /\ prbcd' = [out[2] EXCEPT !.calls = prbcd.calls]
          /\ pret' = PRet("update", out[1], Some(epoch), out[3],
                          IF out[1] = "ok" THEN Project(num_budgets, raw)
                          ELSE <<>>,
                          <<>>)
  /\ UNCHANGED <<ori_data, inj, cache, ret, solo, first, fresh>>

\* the errors of sample_final_edges when no block is in place
NoBlockErrors == {"TypeError", "AttributeError"}

\* get_flipped_edges(): the flipped edges are returned, the ledger is left
\* alone.  With early stopping and no best state line 239 raises
\* AttributeError; with early stopping off and no block in place the final
\* sampler, whose body lies outside this file, fails on the None fields.
PGetFlippedEdges ==
  /\ ~prbcd.running
  /\ IF prbcd.with_early_stopping /\ ~prbcd.has_best
     THEN /\ prbcd' = prbcd
          /\ pret' = PRet("get_flipped_edges", "AttributeError", None, None,
                          <<>>, <<>>)
     ELSE LET p1 == BeforeFinalSample(prbcd)
          IN IF HasBlock(p1)
             THEN \E flipped \in FinalSamples(p1.block_edge_index) :
                    /\ prbcd' = p1
                    /\ pret' = PRet("get_flipped_edges", "ok", None, None,
                                    <<>>, flipped)
             ELSE \E err \in NoBlockErrors :
                    /\ prbcd' = p1
                    /\ pret' = PRet("get_flipped_edges", err, None, None,
                                    <<>>, <<>>)
  /\ UNCHANGED <<ori_data, inj, cache, ret, solo, first, fresh>>

\* prepare(num_budgets, epochs): a new initial block.  self.block_size is
\* set by attack() only (line 98): before the first attack the sampler finds
\* no such attribute.
PPrepare ==
  /\ ~prbcd.running
  /\ IF prbcd.block_size = None
     THEN /\ prbcd' = prbcd
          /\ pret' = PRet("prepare", "AttributeError", None, None, <<>>, <<>>)
     ELSE \E block \in InitialBlocks(prbcd.block_size[1]) :
            /\ prbcd' = [prbcd EXCEPT
                           !.current_block = block,
                           !.block_edge_index = EdgeIndexOf(block),
                           !.block_edge_weight = [i \in DOMAIN block |-> 0],
                           !.best_shared = FALSE]
            /\ pret' = PRet("prepare", "ok", None, None, <<>>, <<>>)
  /\ UNCHANGED <<ori_data, inj, cache, ret, solo, first, fresh>>

(***************************************************************************)
(* InjectionAttacker: state.  inj[a] is attacker object a; cache is the    *)
(* lru_cache(maxsize=1) that wraps the function data of the class; ret is   *)
(* the outcome of the last call.  solo, first and fresh are observers:     *)
(* solo is the cache and the data() result attacker "A" would have if it   *)
(* were the only attacker, first[k] the first graph a data call k of "A"   *)
(* returned since its last reset, fresh[a] whether reset() was called on a *)
(* since its construction and since its last attack that returned.         *)
(***************************************************************************)
Instances == {"A", "B"}

INew(is_setup) ==
  [ is_setup |-> is_setup,
    is_reset |-> FALSE,
    has_ledger |-> FALSE,
    targets |-> None,
    num_budgets |-> None,
    num_edges_global |-> None,
    num_edges_local |-> None,
    feat_limits |-> None,
    feat_budgets |-> None,
    injected_nodes |-> <<>>,
    injected_edges |-> <<>>,
    injected_feats |-> <<>> ]

\* the outcome of a call: err is "" when the call returned, val is what it
\* returned (None, or Some(value)), arg is the call's argument
Outcome(a, op, arg, err, val) ==
  [inst |-> a, op |-> op, arg |-> arg, err |-> err, val |-> val]

\* InjectionAttacker.reset (Attacker.reset sets the reset flag)
IResetState(s) ==
  [s EXCEPT !.is_reset = TRUE,
            !.has_ledger = TRUE,
            !.num_budgets = None,
            !.feat_limits = None,
            !.feat_budgets = None,
            !.num_edges_global = None,
            !.num_edges_local = None,
            !.injected_nodes = <<>>,
            !.injected_edges = <<>>,
            !.injected_feats = <<>>]

\* a reset that leaves the cache of data() as it is
CacheClearOmitted(c) == c

\* self.data.cache_clear()
CacheClear(c) == <<>>

(***************************************************************************)
(* InjectionAttacker.attack                                                *)
(***************************************************************************)
\* Attacker._check_budget(num_budgets, max_perturbations): an integer within
\* 0 < n <= max is kept, a fraction in (0, 1] is multiplied by max and rounded
\* down with a floor of 1.  A budget is [kind, num, den].
BudgetOk(b, max_perturbations) ==
  IF b.kind = "int" THEN b.num > 0 /\ b.num <= max_perturbations
  ELSE b.num > 0 /\ b.num <= b.den

ResolveBudget(b, max_perturbations) ==
  IF b.kind = "int" THEN b.num
  ELSE LET n == (b.num * max_perturbations) \div b.den
       IN IF n < 1 THEN 1 ELSE n

\* lines 115-123.  targets is [kind |-> "none"], a mask [kind |-> "mask",
\* set |-> S] or an index list [kind |-> "index", list |-> l]
ResolveTargets(t) ==
  IF t.kind = "none" THEN [i \in 1 .. NumNodes |-> i - 1]
  ELSE IF t.kind = "mask" THEN SetToSortedSeq(t.set)
  ELSE t.list

\* int(self._degree.mean().clamp(min=1))
DefaultEdgesLocal ==
  IF Cardinality(BaseEdges) < NumNodes THEN 1
  ELSE Cardinality(BaseEdges) \div NumNodes

\* self.feat.min(), self.feat.max()
FeatMin == CHOOSE m \in {BaseX[i][j] : i \in DOMAIN BaseX, j \in 1 .. NumFeats} :
             \A i \in DOMAIN BaseX : \A j \in 1 .. NumFeats : m <= BaseX[i][j]

FeatMax == CHOOSE m \in {BaseX[i][j] : i \in DOMAIN BaseX, j \in 1 .. NumFeats} :
             \A i \in DOMAIN BaseX : \A j \in 1 .. NumFeats : m >= BaseX[i][j]

\* lines 150-161: <<error, min_limits, max_limits, the mapping after the pops>>.
\* feat_limits is [type |-> "none"], [type |-> "tuple", min, max],
\* [type |-> "dict", map |-> a function on its keys] or [type |-> "list"]
ParseFeatLimits(fl) ==
  IF fl.type = "none" THEN <<"", None, None, fl>>
  ELSE IF fl.type = "tuple" THEN <<"", fl.min, fl.max, fl>>
  ELSE IF fl.type = "dict"
  THEN LET lo == IF "min" \in DOMAIN fl.map THEN Some(fl.map["min"]) ELSE None
           hi == IF "max" \in DOMAIN fl.map THEN Some(fl.map["max"]) ELSE None
           left == [k \in (DOMAIN fl.map) \ {"min", "max"} |-> fl.map[k]]
           after == [fl EXCEPT !.map = left]
       IN IF DOMAIN left # {} THEN <<"ValueError", lo, hi, after>>
          ELSE <<"", lo, hi, after>>
  ELSE <<"TypeError", None, None, fl>>

\* lines 166-169 and 171-174
MinLimits(min_limits) == IF min_limits = None THEN FeatMin ELSE 0

MaxLimits(max_limits) == IF max_limits = None THEN FeatMax ELSE 1

\* a check of the edge counts that never fires
BothEdgeCountsUnchecked(a) == FALSE

\* `if num_edges_local is not None and num_edges_global is not None`
BothEdgeCounts(a) == a.num_edges_local # None /\ a.num_edges_global # None

\* `if feat_limits is not None and feat_budgets is not None`
BothFeatConstraints(a) == a.feat_limits.type # "none" /\ a.feat_budgets # None

\* InjectionAttacker.attack on attacker s with arguments a: the outcome is
\* [err, state, feat_limits], feat_limits being the caller's argument object as
\* the call leaves it
AttackResult(err, s, fl) == [err |-> err, state |-> s, feat_limits |-> fl]

AttackFeatures(s, a) ==
  IF BothFeatConstraints(a) THEN AttackResult("RuntimeError", s, a.feat_limits)
  ELSE
    LET parsed == ParseFeatLimits(a.feat_limits)
    IN IF parsed[1] # "" THEN AttackResult(parsed[1], s, parsed[4])
       ELSE IF a.feat_budgets # None /\ ~(a.feat_budgets[1] <= NumFeats)
       THEN AttackResult("AssertionError", s, parsed[4])
       ELSE AttackResult("",
              [s EXCEPT !.feat_budgets = a.feat_budgets,
                        !.feat_limits = Some(<<MinLimits(parsed[2]),
                                               MaxLimits(parsed[3])>>),
                        !.is_reset = FALSE],
              parsed[4])

\* a quotient rounded up
GlobalQuotientCeil(num_edges_global, num_targets) ==
  (num_edges_global + num_targets - 1) \div num_targets

\* `num_edges_global // len(self.targets)`
GlobalQuotient(num_edges_global, num_targets) ==
  num_edges_global \div num_targets

AttackEdges(s, a) ==
  IF BothEdgeCounts(a) THEN AttackResult("RuntimeError", s, a.feat_limits)
  ELSE IF a.num_edges_global # None /\ Len(s.targets[1]) = 0
  THEN AttackResult("ZeroDivisionError", s, a.feat_limits)
  ELSE
    LET quotient == IF a.num_edges_global # None
                    THEN Some(GlobalQuotient(a.num_edges_global[1],
                                             Len(s.targets[1])))
                    ELSE a.num_edges_local
        num_edges_local == IF quotient = None THEN Some(DefaultEdgesLocal)
                           ELSE quotient
    IN IF a.num_edges_global # None /\ quotient[1] = 0
       THEN AttackResult("ValueError", s, a.feat_limits)
       ELSE AttackFeatures(
              [s EXCEPT !.num_budgets =
                           Some(ResolveBudget(a.num_budgets, NumNodes)),
                        !.num_edges_global = a.num_edges_global,
                        !.num_edges_local = num_edges_local],
              a)

\* the state checks without the check of _is_reset
AttackStateErrorNoReset(s) ==
  IF ~s.is_setup THEN "RuntimeError: requires a surrogate model" ELSE ""

\* `if not _is_setup` and `if not self._is_reset`, lines 100-110
AttackStateError(s) ==
  IF ~s.is_setup THEN "RuntimeError: requires a surrogate model"
  ELSE IF ~s.is_reset THEN "RuntimeError: you must reset your attacker"
  ELSE ""

InjAttack(s, a) ==
  IF AttackStateError(s) # "" THEN AttackResult(AttackStateError(s), s, a.feat_limits)
  ELSE IF ~BudgetOk(a.num_budgets, NumNodes)
  THEN AttackResult("ValueError", s, a.feat_limits)
  ELSE AttackEdges([s EXCEPT !.targets = Some(ResolveTargets(a.targets))], a)

(***************************************************************************)
(* The ledger: inject_node, inject_edge and the accessors.  A feature      *)
(* tensor is [dim, v]: dim 1 is a vector of num_feats entries, dim 2 a     *)
(* 1 x num_feats matrix.                                                   *)
(***************************************************************************)
Vec(v) == [dim |-> 1, v |-> v]

Row(v) == [dim |-> 2, v |-> v]

MinOf(v) == CHOOSE m \in Range(v) : \A x \in Range(v) : m <= x

MaxOf(v) == CHOOSE m \in Range(v) : \A x \in Range(v) : m >= x

\* feat.bool().sum()
NonZeros(v) == Cardinality({i \in DOMAIN v : v[i] # 0})

\* lines 245-247: feat = zeros(1, num_feats); feat[idx] = 1.0 indexes the rows
\* of the 1 x num_feats matrix with the first feat_budgets entries idx of a
\* random permutation perm of 0 .. num_feats-1.  <<error, feat>>
GeneratedFlips(perm, feat_budgets) ==
  LET k == IF feat_budgets < Len(perm) THEN feat_budgets ELSE Len(perm)
      idx == {perm[i] : i \in 1 .. k}
  IN IF \E i \in idx : i >= 1 THEN <<"IndexError", Row(<<>>)>>
     ELSE <<"", Row([j \in 1 .. NumFeats |-> IF 0 \in idx THEN 1 ELSE 0])>>

\* assertions that are not evaluated
FeatAcceptedUnchecked(s, v) == TRUE

\* the assertions of lines 254-258 on a caller's feature vector
FeatAccepted(s, v) ==
  IF s.feat_budgets # None THEN NonZeros(v) <= s.feat_budgets[1]
  ELSE MinOf(v) >= s.feat_limits[1][1] /\ MaxOf(v) <= s.feat_limits[1][2]

\* inject_node(node, feat): feat is None, or Some(v) for a caller's vector;
\* perm and drawn are the random permutation and the uniform draw used when
\* the vector is generated.  <<error, attacker>>
InjectNode(s, node, feat, perm, drawn) ==
  LET stored(f) == [s EXCEPT !.injected_nodes = Append(s.injected_nodes, node),
                             !.injected_feats = Append(s.injected_feats, f)]
  IN IF ~s.has_ledger THEN <<"AttributeError", s>>
     ELSE IF feat = None
     THEN IF s.feat_budgets # None
          THEN LET g == GeneratedFlips(perm, s.feat_budgets[1])
               IN IF g[1] # "" THEN <<g[1], s>> ELSE <<"", stored(g[2])>>
          ELSE IF s.feat_limits = None THEN <<"TypeError", s>>
          ELSE IF s.feat_limits[1][1] > s.feat_limits[1][2]
          THEN <<"RuntimeError", s>>
          ELSE <<"", stored(Vec(drawn))>>
     ELSE IF s.feat_budgets = None /\ s.feat_limits = None THEN <<"TypeError", s>>
     ELSE IF ~FeatAccepted(s, feat[1]) THEN <<"AssertionError", s>>
     ELSE <<"", stored(Vec(feat[1]))>>

\* inject_edge(u, v, it)
InjectEdge(s, u, v, it) ==
  IF ~s.has_ledger THEN <<"AttributeError", s>>
  ELSE <<"", [s EXCEPT !.injected_edges = DictPut(s.injected_edges, <<u, v>>, it)]>>

\* injected_nodes(), injected_edges(), injected_feats(): <<error, value>>
InjectedNodes(s) ==
  IF ~s.has_ledger THEN <<"AttributeError", None>>
  ELSE IF Len(s.injected_nodes) = 0 THEN <<"", None>>
  ELSE <<"", Some(s.injected_nodes)>>

InjectedEdges(s) ==
  IF ~s.has_ledger THEN <<"AttributeError", None>>
  ELSE IF Len(s.injected_edges) = 0 THEN <<"", None>>
  ELSE <<"", Some(DictKeys(s.injected_edges))>>

\* torch.stack(feats, dim=0) needs tensors of one shape
InjectedFeats(s) ==
  IF ~s.has_ledger THEN <<"AttributeError", None>>
  ELSE IF Len(s.injected_feats) = 0 THEN <<"", None>>
  ELSE IF \E i, j \in DOMAIN s.injected_feats :
            s.injected_feats[i].dim # s.injected_feats[j].dim
  THEN <<"RuntimeError", None>>
  ELSE <<"", Some([dim |-> s.injected_feats[1].dim + 1,
                   rows |-> [i \in DOMAIN s.injected_feats |->
                               s.injected_feats[i].v]])>>

(***************************************************************************)
(* data(symmetric) and the lru_cache around it                             *)
(***************************************************************************)
\* The objects data() works on.  A heap is [obj, ten]: obj maps a container
\* (a Data object) to the tensors its attributes x and edge_index name, ten
\* maps a tensor to its contents.  HeapOf(o) holds self.ori_data alone.
HeapOf(o) ==
  [obj |-> [c \in {"ori_data"} |-> [x |-> "ori_x", edge_index |-> "ori_edge_index"]],
   ten |-> [t \in {"ori_x", "ori_edge_index"} |->
              IF t = "ori_x" THEN o.x ELSE o.edge_index]]

\* the contents of container c
Deref(h, c) ==
  [x |-> h.ten[h.obj[c].x], edge_index |-> h.ten[h.obj[c].edge_index]]

\* a tensor t built by a torch function that returns a new tensor
NewTensor(h, t, contents) ==
  [h EXCEPT !.ten = [k \in (DOMAIN h.ten) \cup {t} |->
                       IF k = t THEN contents ELSE h.ten[k]]]

\* c.attr = t
SetAttr(h, c, attr, t) == [h EXCEPT !.obj[c][attr] = t]

\* `data = self.ori_data`: no copy, the name data is the base graph itself
CopyAliased(h, c) == [heap |-> h, ref |-> c]

\* copy(c), the shallow copy of line 292: a new container "data" whose
\* attributes name the tensors of c
Copy(h, c) ==
  [heap |-> [h EXCEPT !.obj = [k \in (DOMAIN h.obj) \cup {"data"} |->
                                 IF k = "data" THEN h.obj[c] ELSE h.obj[k]]],
   ref |-> "data"]

\* graphwar.utils.add_edges(edge_index, edges, symmetric): the edits are
\* unioned into the base edges, and the result is mirrored when symmetric
AddEdges(edge_index, edges, symmetric) ==
  LET all == edge_index \cup (IF edges = None THEN {} ELSE Range(edges[1]))
  IN IF symmetric THEN all \cup {<<e[2], e[1]>> : e \in all} ELSE all

\* the body of data(): [err, val, ori_data], val the graph returned and
\* ori_data the base graph as the call leaves it.  torch.cat (line 295)
\* raises on None and on rows of another shape, before data.x is assigned;
\* torch.cat and add_edges return new tensors.
DataBody(o, s, symmetric) ==
  LET copied == Copy(HeapOf(o), "ori_data")
      data == copied.ref
      h0 == copied.heap
      edges == InjectedEdges(s)
      feats == InjectedFeats(s)
      failed(err) == [err |-> err, val |-> None, ori_data |-> Deref(h0, "ori_data")]
  IN IF edges[1] # "" THEN failed(edges[1])
     ELSE IF feats[1] # "" THEN failed(feats[1])
     ELSE IF feats[2] = None THEN failed("TypeError")
     ELSE IF feats[2][1].dim # 2 THEN failed("RuntimeError")
     ELSE LET h1 == NewTensor(h0, "cat", Deref(h0, data).x \o feats[2][1].rows)
              h2 == SetAttr(h1, data, "x", "cat")
              h3 == NewTensor(h2, "added",
                              AddEdges(Deref(h2, data).edge_index, edges[2],
                                       symmetric))
              h4 == SetAttr(h3, data, "edge_index", "added")
          IN [err |-> "", val |-> Some(Deref(h4, data)),
              ori_data |-> Deref(h4, "ori_data")]

\* @lru_cache(maxsize=1)
LruMaxSize == 1

\* a data call is [form, symmetric]: data(), data(s) or data(symmetric=s); the
\* key of the cache is made of the positional and the keyword arguments of
\* the call as they were written, self included
CacheKey(a, call) ==
  IF call.form = "default" THEN <<a, "">>
  ELSE IF call.form = "positional"
  THEN <<a, IF call.symmetric THEN "True" ELSE "False">>
  ELSE <<a, IF call.symmetric THEN "symmetric=True" ELSE "symmetric=False">>

CacheHit(c, key) == \E i \in DOMAIN c : c[i].key = key

CacheGet(c, key) == c[CHOOSE i \in DOMAIN c : c[i].key = key].val

\* a new entry evicts the least recently used one when the cache is full
CacheStore(c, key, val) ==
  LET grown == Append(c, [key |-> key, val |-> val])
  IN IF Len(grown) > LruMaxSize THEN Tail(grown) ELSE grown

\* a hit makes the entry the most recently used one
CacheTouch(c, key) ==
  LET i == CHOOSE j \in DOMAIN c : c[j].key = key
  IN Append([j \in 1 .. (Len(c) - 1) |-> IF j < i THEN c[j] ELSE c[j + 1]], c[i])

\* a.data(...) through the cache c: [err, val, cache, ori_data].  A call that
\* raises stores nothing.
Data(c, o, s, a, call) ==
  LET key == CacheKey(a, call)
  IN IF CacheHit(c, key)
     THEN [err |-> "", val |-> CacheGet(c, key), cache |-> CacheTouch(c, key),
           ori_data |-> o]
     ELSE LET r == DataBody(o, s, call.symmetric)
          IN [err |-> r.err, val |-> r.val,
              cache |-> IF r.err = "" THEN CacheStore(c, key, r.val) ELSE c,
              ori_data |-> r.ori_data]

DataCalls ==
  {[form |-> "default", symmetric |-> TRUE]}
    \cup [form : {"positional", "keyword"}, symmetric : BOOLEAN]

(***************************************************************************)
(* InjectionAttacker: the calls a caller can make.                         *)
(***************************************************************************)
IntBudget(n) == [kind |-> "int", num |-> n, den |-> 1]

Fraction(n, d) == [kind |-> "float", num |-> n, den |-> d]

NoTargets == [kind |-> "none", set |-> {}, list |-> <<>>]

Mask(S) == [kind |-> "mask", set |-> S, list |-> <<>>]

Index(l) == [kind |-> "index", set |-> {}, list |-> l]

NoLimits == [type |-> "none", min |-> None, max |-> None, map |-> <<>>]

TupleLimits(lo, hi) == [type |-> "tuple", min |-> lo, max |-> hi, map |-> <<>>]

DictLimits(m) == [type |-> "dict", min |-> None, max |-> None, map |-> m]

ListLimits == [type |-> "list", min |-> None, max |-> None, map |-> <<>>]

AttackArgs(num_budgets, targets, num_edges_global, num_edges_local, feat_limits, feat_budgets) ==
  [num_budgets |-> num_budgets, targets |-> targets,
   num_edges_global |-> num_edges_global, num_edges_local |-> num_edges_local,
   feat_limits |-> feat_limits, feat_budgets |-> feat_budgets]

\* attack(num_budgets=1)
PlainAttack == AttackArgs(IntBudget(1), NoTargets, None, None, NoLimits, None)

\* the calls of attack used to study its validation: the budget, the targets
\* with the edge counts, and the feature constraints, each varied with the
\* other arguments left out
WideAttacks ==
  {[PlainAttack EXCEPT !.num_budgets = b] :
     b \in {IntBudget(0), IntBudget(2), IntBudget(NumNodes + 1), Fraction(1, 2)}}
  \cup
  {[PlainAttack EXCEPT !.num_budgets = b, !.targets = t,
                       !.num_edges_global = g, !.num_edges_local = l] :
     b \in {IntBudget(1), IntBudget(2)},
     t \in {NoTargets, Mask({0, 2}), Mask({}), Index(<<1>>)},
     g \in {None, Some(0), Some(1), Some(5)},
     l \in {None, Some(2)}}
  \cup
  {[PlainAttack EXCEPT !.feat_limits = fl, !.feat_budgets = fb] :
     fl \in {NoLimits, TupleLimits(Some(0), Some(3)), TupleLimits(None, Some(3)),
             DictLimits([k \in {"min"} |-> 0]),
             DictLimits([k \in {"min", "max"} |-> IF k = "min" THEN 0 ELSE 3]),
             DictLimits([k \in {"min", "low"} |-> 0]), ListLimits},
     fb \in {None, Some(1), Some(NumFeats + 1)}}

\* the calls of attack used to study the ledger: default limits, a flip budget
\* and caller's limits
LedgerAttacks ==
  {PlainAttack,
   [PlainAttack EXCEPT !.feat_budgets = Some(1)],
   [PlainAttack EXCEPT !.feat_limits = TupleLimits(Some(0), Some(3))]}

\* the inputs of inject_node and inject_edge: [nodes, max_nodes, feats,
\* edges, calls] names the node ids, the number of stored nodes up to which
\* the ledger is followed, the feature arguments, the <<edge, it>> arguments
\* and the data calls a specification draws from
LedgerInputs ==
  [nodes |-> {NumNodes},
   max_nodes |-> 1,
   feats |-> {None, Some(<<1, 1>>), Some(<<0, 1>>), Some(<<1, 3>>)},
   edges |-> {<<0, NumNodes>>, <<NumNodes, NumNodes + 1>>} \X {None, Some(1)},
   calls |-> [form : {"default"}, symmetric : {TRUE}]]

\* the study of inject_node: two node ids, every feature argument
NodeInputs ==
  [nodes |-> {NumNodes, NumNodes + 1},
   max_nodes |-> MaxInjected,
   feats |-> {None, Some(<<1, 1>>), Some(<<0, 1>>), Some(<<1, 3>>)},
   edges |-> {},
   calls |-> {}]

CacheInputs ==
  [nodes |-> {NumNodes},
   max_nodes |-> 1,
   feats |-> {Some(<<1, 1>>)},
   edges |-> {<<0, NumNodes>>, <<NumNodes, 1>>} \X {None},
   calls |-> DataCalls]

\* the study of the base graph: up to MaxInjected nodes, one edge, data()
\* symmetric or not
BaseInputs ==
  [nodes |-> {NumNodes},
   max_nodes |-> MaxInjected,
   feats |-> {Some(<<1, 1>>)},
   edges |-> {<<0, NumNodes>>} \X {None},
   calls |-> [form : {"keyword"}, symmetric : BOOLEAN]]

TwoInputs ==
  [nodes |-> {NumNodes},
   max_nodes |-> 1,
   feats |-> {Some(<<1, 1>>)},
   edges |-> {<<0, NumNodes>>} \X {None},
   calls |-> [form : {"keyword"}, symmetric : {TRUE}]]

\* torch.randperm(num_feats)
RandPerms ==
  {p \in [1 .. NumFeats -> 0 .. (NumFeats - 1)] :
     \A i, j \in 1 .. NumFeats : i # j => p[i] # p[j]}

\* new_empty(num_feats).uniform_(lo, hi)
UniformDraws(lo, hi) == [1 .. NumFeats -> lo .. hi]

\* the random inputs inject_node reads in state s for the argument feat
RandomInputs(s, feat) ==
  IF feat # None \/ ~s.has_ledger THEN {<<<<>>, <<>>>>}
  ELSE IF s.feat_budgets # None THEN {<<p, <<>>>> : p \in RandPerms}
  ELSE IF s.feat_limits = None THEN {<<<<>>, <<>>>>}
  ELSE IF s.feat_limits[1][1] > s.feat_limits[1][2] THEN {<<<<>>, <<>>>>}
  ELSE {<<<<>>, d>> : d \in UniformDraws(s.feat_limits[1][1], s.feat_limits[1][2])}

NoFirst == [k \in DataCalls |-> None]

IReset(a) ==
  /\ inj' = [inj EXCEPT ![a] = IResetState(inj[a])]
  /\ cache' = CacheClear(cache)
  /\ solo' = IF a = "A" THEN [solo EXCEPT !.cache = <<>>] ELSE solo
  /\ first' = IF a = "A" THEN NoFirst ELSE first
  /\ ret' = Outcome(a, "reset", None, "", None)
  /\ fresh' = [fresh EXCEPT ![a] = TRUE]
  /\ UNCHANGED <<prbcd, pret, ori_data>>

\* Surrogate.setup_surrogate
ISetupSurrogate(a) ==
  /\ ~inj[a].is_setup
  /\ inj' = [inj EXCEPT ![a].is_setup = TRUE]
  /\ ret' = Outcome(a, "setup_surrogate", None, "", None)
  /\ UNCHANGED <<prbcd, pret, ori_data, cache, solo, first, fresh>>

IAttack(a, calls) ==
  /\ \E args \in calls :
       LET r == InjAttack(inj[a], args)
       IN /\ inj' = [inj EXCEPT ![a] = r.state]
          /\ ret' = Outcome(a, "attack", args, r.err, Some(r.feat_limits))
          /\ fresh' = IF r.err = "" THEN [fresh EXCEPT ![a] = FALSE] ELSE fresh
  /\ UNCHANGED <<prbcd, pret, ori_data, cache, solo, first>>

\* inject_node(node, feat).  The list is followed up to in.max_nodes
\* entries: a call that would store one more is left out, a call that is
\* refused is not.
IInjectNode(a, in) ==
  /\ \E node \in in.nodes, feat \in in.feats :
     \E rnd \in RandomInputs(inj[a], feat) :
       LET r == InjectNode(inj[a], node, feat, rnd[1], rnd[2])
       IN /\ Len(r[2].injected_nodes) <= in.max_nodes
          /\ inj' = [inj EXCEPT ![a] = r[2]]
          /\ ret' = Outcome(a, "inject_node", <<node, feat>>, r[1], None)
  /\ UNCHANGED <<prbcd, pret, ori_data, cache, solo, first, fresh>>

IInjectEdge(a, in) ==
  /\ \E e \in in.edges :
       LET r == InjectEdge(inj[a], e[1][1], e[1][2], e[2])
       IN /\ inj' = [inj EXCEPT ![a] = r[2]]
          /\ ret' = Outcome(a, "inject_edge", e, r[1], None)
  /\ UNCHANGED <<prbcd, pret, ori_data, cache, solo, first, fresh>>

IData(a, in, track) ==
  /\ \E call \in in.calls :
       LET r == Data(cache, ori_data, inj[a], a, call)
           alone == Data(solo.cache, ori_data, inj[a], a, call)
       IN /\ cache' = r.cache
          /\ ori_data' = r.ori_data
          /\ ret' = Outcome(a, "data", call, r.err, r.val)
          /\ solo' = IF a = "A"
                     THEN [cache |-> alone.cache, err |-> alone.err, val |-> alone.val]
                     ELSE solo
          /\ first' = IF track /\ a = "A" /\ r.err = "" /\ first[call] = None
                      THEN [first EXCEPT ![call] = r.val]
                      ELSE first
  /\ UNCHANGED <<prbcd, pret, inj, fresh>>

IAccessor(a) ==
  /\ \E op \in {"injected_nodes", "injected_edges", "injected_feats"} :
       LET r == IF op = "injected_nodes" THEN InjectedNodes(inj[a])
                ELSE IF op = "injected_edges" THEN InjectedEdges(inj[a])
                ELSE InjectedFeats(inj[a])
       IN ret' = Outcome(a, op, None, r[1], r[2])
  /\ UNCHANGED <<prbcd, pret, ori_data, inj, cache, solo, first, fresh>>

(***************************************************************************)
(* Specifications.                                                         *)
(***************************************************************************)
\* the objects as their constructors leave them; setups: whether attacker "A"
\* needs no surrogate, or needs one that is not set up yet
Init(setups, devices) ==
  /\ \E d \in devices : prbcd = PNew(d)
  /\ pret = PRet("new", "ok", None, None, <<>>, <<>>)
  /\ ori_data = [x |-> BaseX, edge_index |-> BaseEdges]
  /\ \E b \in setups : inj = [a \in Instances |-> INew(IF a = "A" THEN b ELSE TRUE)]
  /\ cache = <<>>
  /\ solo = [cache |-> <<>>, err |-> "", val |-> None]
  /\ first = NoFirst
  /\ fresh = [a \in Instances |-> FALSE]
  /\ ret = Outcome("A", "new", None, "", None)

\* one PRBCDAttack
NextPRBCD == PReset \/ PAttackBegin(PAttackArgs) \/ PEpoch \/ PFinish

SpecPRBCD == Init({TRUE}, Devices) /\ [][NextPRBCD]_vars

\* one PRBCDAttack whose caller also calls update, get_flipped_edges and
\* prepare itself
NextPRBCDCalls ==
  \/ PReset
  \/ PAttackBegin(PCallerArgs)
  \/ PEpoch
  \/ PFinish
  \/ PUpdate
  \/ PGetFlippedEdges
  \/ PPrepare

SpecPRBCDCalls == Init({TRUE}, Devices) /\ [][NextPRBCDCalls]_vars

\* one InjectionAttacker: reset, setup_surrogate and attack
NextAttack == IReset("A") \/ ISetupSurrogate("A") \/ IAttack("A", WideAttacks)

SpecAttack == Init(BOOLEAN, {"cpu"}) /\ [][NextAttack]_vars

\* one InjectionAttacker: the ledger, the accessors and data()
NextLedger ==
  \/ IReset("A")
  \/ IAttack("A", LedgerAttacks)
  \/ IInjectNode("A", LedgerInputs)
  \/ IInjectEdge("A", LedgerInputs)
  \/ IData("A", LedgerInputs, FALSE)
  \/ IAccessor("A")

SpecLedger == Init({TRUE}, {"cpu"}) /\ [][NextLedger]_vars

\* one InjectionAttacker: inject_node on an empty and on a filled ledger
NextNodes ==
  \/ IReset("A")
  \/ IAttack("A", LedgerAttacks)
  \/ IInjectNode("A", NodeInputs)
  \/ IAccessor("A")

SpecNodes == Init({TRUE}, {"cpu"}) /\ [][NextNodes]_vars

\* an InjectionAttacker and a PRBCDAttack built on the same base graph
NextBase ==
  \/ IReset("A")
  \/ IAttack("A", {PlainAttack})
  \/ IInjectNode("A", BaseInputs)
  \/ IInjectEdge("A", BaseInputs)
  \/ IData("A", BaseInputs, FALSE)
  \/ PReset
  \/ PAttackBegin(PBaseArgs)
  \/ PEpoch
  \/ PFinish

SpecBase == Init({TRUE}, {"cpu"}) /\ [][NextBase]_vars

\* one InjectionAttacker: data() and its cache
NextCache ==
  \/ IReset("A")
  \/ IAttack("A", {PlainAttack})
  \/ IInjectNode("A", CacheInputs)
  \/ IInjectEdge("A", CacheInputs)
  \/ IData("A", CacheInputs, TRUE)

SpecCache == Init({TRUE}, {"cpu"}) /\ [][NextCache]_vars

\* two InjectionAttackers over the same base graph
NextTwo ==
  \E a \in Instances :
    \/ IReset(a)
    \/ IAttack(a, {PlainAttack})
    \/ IInjectNode(a, TwoInputs)
    \/ IInjectEdge(a, TwoInputs)
    \/ IData(a, TwoInputs, FALSE)

SpecTwo == Init({TRUE}, {"cpu"}) /\ [][NextTwo]_vars

(***************************************************************************)
(* PRBCDAttack: the budget, the best state and the resampling schedule     *)
(***************************************************************************)

\* C1: an attack that completes has applied at most num_budgets flipped edges
\* to the ledger, and an attack whose final sample holds more than num_budgets
\* edges ends with the assertion error and nothing added to or removed from
\* the ledger.
C1_FlipsWithinBudget ==
  /\ (pret.op = "attack" /\ pret.result = "ok")
       => /\ Len(pret.flipped) <= prbcd.num_budgets[1]
          /\ Len(prbcd.added_edges) + Len(prbcd.removed_edges)
               <= prbcd.num_budgets[1]
          /\ Range(DictKeys(prbcd.added_edges)) \cup
               Range(DictKeys(prbcd.removed_edges)) = Range(pret.flipped)
  /\ (pret.op = "attack" /\ pret.flipped # <<>>
        /\ Len(pret.flipped) > prbcd.num_budgets[1])
       => /\ pret.result = "AssertionError"
          /\ prbcd.added_edges = <<>>
          /\ prbcd.removed_edges = <<>>

\* an attack completed with the whole budget spent, on a block that holds
\* more candidates than the budget
C1_Witness ==
  /\ pret.op = "attack"
  /\ pret.result = "ok"
  /\ prbcd.num_budgets = Some(1)
  /\ Len(pret.flipped) = 1
  /\ Len(prbcd.block_edge_index) = 2
  /\ Len(prbcd.added_edges) + Len(prbcd.removed_edges) = 1

(***************************************************************************)
(* InjectionAttacker.attack: the state checks and the argument checks      *)
(***************************************************************************)

\* C2: an attack returns only if reset() was called since the construction
\* and since the last attack that returned; an attack that follows one that
\* returned with no reset() in between fails with the reset error; an attack
\* on an attacker without its surrogate fails with the surrogate error
\* whatever the arguments are, and changes nothing.
C2_AttackNeedsReset ==
  [][\A a \in Instances :
       (ret'.op = "attack" /\ ret'.inst = a) =>
         /\ ret'.err = "" => (fresh[a] /\ inj[a].is_setup)
         /\ ~inj[a].is_setup =>
              (ret'.err = "RuntimeError: requires a surrogate model"
                 /\ inj' = inj)
         /\ (inj[a].is_setup /\ ~fresh[a]) =>
              (ret'.err = "RuntimeError: you must reset your attacker"
                 /\ inj' = inj)]_vars

\* a second attack, with arguments the checks would accept, refused after one
\* that returned
C2_Witness ==
  /\ ret.op = "attack"
  /\ ret.err = "RuntimeError: you must reset your attacker"
  /\ ret.arg = PlainAttack
  /\ inj["A"].num_budgets # None
  /\ ~fresh["A"]

\* C3: an attack of InjectionAttacker that raises an argument or budget error
\* leaves every field of the attacker (targets, num_budgets, num_edges_local,
\* num_edges_global, feat_limits, feat_budgets, the reset flag, the ledger) as
\* it was before the call.
C3_ValidationBeforeMutation ==
  [][(ret'.op = "attack"
        /\ ret'.err \in {"RuntimeError", "ValueError", "TypeError",
                         "AssertionError"})
       => inj' = inj]_vars

(***************************************************************************)
(* PRBCDAttack.update: the best state, resampling and the boundary epoch   *)
(***************************************************************************)

\* C4: across the epochs of one attack with early stopping, best_metric never
\* decreases; an epoch whose metric is strictly greater than best_metric
\* replaces best_metric, best_block, best_edge_index and best_pert_edge_weight
\* together by that epoch's metric, block, block edge index and projected
\* weights; every other epoch keeps all four; and best_metric is at least the
\* metric of epoch 0.
C4_BestStateMonotone ==
  /\ [][(prbcd.running /\ prbcd.with_early_stopping
           /\ prbcd'.step = prbcd.step + 1)
          => LET m == pret'.metric[1]
                 better == prbcd.best_metric = None \/ m > prbcd.best_metric[1]
             IN /\ prbcd'.best_metric # None
                /\ prbcd.best_metric # None
                     => prbcd'.best_metric[1] >= prbcd.best_metric[1]
                /\ better =>
                     /\ prbcd'.best_metric = <<m>>
                     /\ prbcd'.best_block = prbcd.current_block
                     /\ prbcd'.best_edge_index = prbcd.block_edge_index
                     /\ prbcd'.best_pert_edge_weight = pret'.weights
                /\ ~better =>
                     /\ prbcd'.best_metric = prbcd.best_metric
                     /\ prbcd'.best_block = prbcd.best_block
                     /\ prbcd'.best_edge_index = prbcd.best_edge_index
                     /\ prbcd'.best_pert_edge_weight
                          = prbcd.best_pert_edge_weight]_vars
  /\ [](prbcd.metric0 # None
          => (prbcd.best_metric # None
                /\ prbcd.best_metric[1] >= prbcd.metric0[1]))

\* C5: whether early stopping is enabled or not, the initial block is sampled
\* exactly once, before epoch 0, the block is resampled exactly once in every
\* epoch e < R - 1 and never in an epoch e >= R - 1.
C5_ResamplingSchedule ==
  (prbcd.calls # <<>> /\ prbcd.epochs_resampling # None) =>
    /\ prbcd.calls[1] = [op |-> "sample", epoch |-> 0]
    /\ \A i \in 2 .. Len(prbcd.calls) : prbcd.calls[i].op = "resample"
    /\ \A e \in 0 .. (prbcd.step - 1) :
         Cardinality({i \in DOMAIN prbcd.calls :
                        prbcd.calls[i] = [op |-> "resample", epoch |-> e]})
           = IF e < prbcd.epochs_resampling[1] - 1 THEN 1 ELSE 0

\* C6 as the code has it: with E >= R >= 1, at the end of epoch R - 1 of an
\* attack with early stopping enabled the driver's current_block,
\* block_edge_index and block_edge_weight equal best_block, best_edge_index
\* and best_pert_edge_weight, and in every configuration no later epoch
\* changes the set of candidate edges of the block.
C6_BoundaryWithEarlyStopping ==
  /\ [](( /\ pret.op = "epoch"
          /\ prbcd.with_early_stopping
          /\ prbcd.epochs_resampling[1] >= 1
          /\ pret.epoch = Some(prbcd.epochs_resampling[1] - 1))
          => /\ prbcd.current_block = prbcd.best_block
             /\ prbcd.block_edge_index = prbcd.best_edge_index
             /\ prbcd.block_edge_weight = prbcd.best_pert_edge_weight)
  /\ [][( /\ prbcd.running
          /\ prbcd'.step = prbcd.step + 1
          /\ prbcd.epochs_resampling[1] >= 1
          /\ prbcd.step > prbcd.epochs_resampling[1] - 1)
          => Range(prbcd'.block_edge_index) = Range(prbcd.block_edge_index)]_vars

\* the boundary epoch of an attack that resampled before it: its metric is
\* below the best one, so the block the epoch ran on is given up for the best
C6_Witness ==
  /\ pret.op = "epoch"
  /\ prbcd.with_early_stopping
  /\ prbcd.epochs_resampling = Some(2)
  /\ pret.epoch = Some(1)
  /\ pret.metric = Some(0)
  /\ prbcd.best_metric = Some(1)
  /\ prbcd.block_edge_weight # pret.weights
  /\ prbcd.epochs > 2

\* C6 as stated, for every configuration: at the end of epoch R - 1 the
\* driver's block, edge index and weights equal the stored best ones, and no
\* later epoch changes the set of candidate edges.
C6_BoundaryEveryConfiguration ==
  /\ [](( /\ pret.op = "epoch"
          /\ prbcd.epochs_resampling[1] >= 1
          /\ pret.epoch = Some(prbcd.epochs_resampling[1] - 1))
          => /\ prbcd.current_block = prbcd.best_block
             /\ prbcd.block_edge_index = prbcd.best_edge_index
             /\ prbcd.block_edge_weight = prbcd.best_pert_edge_weight)
  /\ [][( /\ prbcd.running
          /\ prbcd'.step = prbcd.step + 1
          /\ prbcd.epochs_resampling[1] >= 1
          /\ prbcd.step > prbcd.epochs_resampling[1] - 1)
          => Range(prbcd'.block_edge_index) = Range(prbcd.block_edge_index)]_vars

(***************************************************************************)
(* InjectionAttacker.data: the cache, the accessors, two attackers         *)
(***************************************************************************)

\* C7: once data(symmetric=s) has returned a graph, every later
\* data(symmetric=s) of that attacker before its next reset() returns that
\* same graph, whatever inject_node, inject_edge or data calls come between,
\* and the first data() that returns after a reset() is built from the ledger.
C7_CachedUntilReset ==
  /\ []((ret.op = "data" /\ ret.err = "" /\ ret.inst = "A")
          => \A k \in DataCalls :
               (k.symmetric = ret.arg.symmetric /\ first[k] # None)
                 => ret.val = first[k])
  /\ [][(ret'.op = "data" /\ ret'.err = "" /\ ret'.inst = "A"
           /\ first = NoFirst)
          => ret'.val = DataBody(ori_data, inj["A"], ret'.arg.symmetric).val]_vars

\* C8: two consecutive data() calls with the same symmetric argument, with no
\* inject_node, inject_edge or reset between them, that both return, return
\* identical graphs: the same node count and the same edge set.
C8_ConsecutiveDataEqual ==
  [][( /\ ret.op = "data" /\ ret.err = ""
       /\ ret'.op = "data" /\ ret'.err = ""
       /\ ret'.inst = ret.inst
       /\ ret'.arg.symmetric = ret.arg.symmetric)
       => /\ Len(ret'.val[1].x) = Len(ret.val[1].x)
          /\ ret'.val[1].edge_index = ret.val[1].edge_index
          /\ ret'.val = ret.val]_vars

\* C9: with no inject_node and no inject_edge since reset(), none of the four
\* accessors raises: injected_nodes(), injected_edges() and injected_feats()
\* return None, and data() returns None or a graph with exactly the nodes and
\* edges of the base graph.
C9_EmptyAccessors ==
  ( /\ inj["A"].has_ledger
    /\ inj["A"].injected_nodes = <<>>
    /\ inj["A"].injected_edges = <<>>
    /\ inj["A"].injected_feats = <<>> )
  => /\ ret.op \in {"injected_nodes", "injected_edges", "injected_feats"}
          => (ret.err = "" /\ ret.val = None)
     /\ ret.op = "data"
          => /\ ret.err = ""
             /\ \/ ret.val = None
                \/ /\ Len(ret.val[1].x) = NumNodes
                   /\ ret.val[1].edge_index = BaseEdges

\* C10: under every interleaving of the operations of attackers A and B, each
\* result returned to A equals the result the same operations of A return
\* when B does nothing, and no operation of B changes a field of A.
C10_NoSharedState ==
  /\ []((ret.inst = "A" /\ ret.op = "data")
          => (ret.err = solo.err /\ ret.val = solo.val))
  /\ [][ret'.inst = "B" => inj'["A"] = inj["A"]]_vars

(***************************************************************************)
(* InjectionAttacker.attack: the feature limits, the edge counts and the   *)
(* targets                                                                 *)
(***************************************************************************)

\* C11: after an attack that returned, feat_limits is the pair (min, max) in
\* which each bound is the caller's value when the caller gave one (as a
\* tuple entry or under the key 'min' / 'max' of a mapping) and the minimum /
\* maximum of the base feature matrix when the caller gave none.
C11_FeatLimitsResolved ==
  [][(ret'.op = "attack" /\ ret'.err = "") =>
       LET fl == ret'.arg.feat_limits
           entries == {BaseX[i][j] : i \in DOMAIN BaseX, j \in DOMAIN BaseX[1]}
           least == CHOOSE m \in entries : \A e \in entries : m <= e
           most == CHOOSE m \in entries : \A e \in entries : m >= e
           lo == IF fl.type = "tuple" /\ fl.min # None THEN fl.min[1]
                 ELSE IF fl.type = "dict" /\ "min" \in DOMAIN fl.map
                 THEN fl.map["min"]
                 ELSE least
           hi == IF fl.type = "tuple" /\ fl.max # None THEN fl.max[1]
                 ELSE IF fl.type = "dict" /\ "max" \in DOMAIN fl.map
                 THEN fl.map["max"]
                 ELSE most
       IN inj'[ret'.inst].feat_limits = <<<<lo, hi>>>>]_vars

\* C12: an attack given num_edges_global = g and no num_edges_local, with a
\* resolved target list of t >= 1 nodes, fails with the budget error when the
\* integer quotient g div t is 0, and otherwise, when it returns, has set
\* num_edges_local to g div t and num_edges_global to g.
C12_GlobalEdgeCount ==
  [][\A a \in Instances :
       LET args == ret'.arg
           t == IF args.targets.kind = "none" THEN NumNodes
                ELSE IF args.targets.kind = "mask"
                THEN Cardinality(args.targets.set)
                ELSE Len(args.targets.list)
           g == args.num_edges_global[1]
       IN ( /\ ret'.op = "attack" /\ ret'.inst = a
            /\ inj[a].is_setup /\ inj[a].is_reset
            /\ args.num_budgets.kind = "int"
            /\ args.num_budgets.num \in 1 .. NumNodes
            /\ args.num_edges_global # None
            /\ args.num_edges_local = None
            /\ t >= 1 )
          => /\ g \div t = 0 =>
                  (ret'.err = "ValueError" /\ inj'[a].is_reset
                     /\ inj'[a].num_edges_local = inj[a].num_edges_local)
             /\ g \div t >= 1 =>
                  /\ ret'.err = ""
                  /\ inj'[a].num_edges_local = <<g \div t>>
                  /\ inj'[a].num_edges_global = <<g>>]_vars

\* 5 edges over the 2 targets of a mask: 2 edges for each injected node
C12_Witness ==
  /\ ret.op = "attack"
  /\ ret.err = ""
  /\ ret.arg.targets = Mask({0, 2})
  /\ ret.arg.num_edges_global = Some(5)
  /\ ret.arg.num_edges_local = None
  /\ inj["A"].targets = Some(<<0, 2>>)
  /\ inj["A"].num_edges_local = Some(2)
  /\ inj["A"].num_edges_global = Some(5)

\* C13: an attack given neither num_edges_local nor num_edges_global, when it
\* returns, has set num_edges_local to the mean node degree rounded to the
\* nearest integer, and to 1 when that is below 1.
C13_DefaultEdgeCountRounded ==
  [][( /\ ret'.op = "attack" /\ ret'.err = ""
       /\ ret'.arg.num_edges_local = None
       /\ ret'.arg.num_edges_global = None )
       => LET edges == Cardinality(BaseEdges)
              nodes == Len(BaseX)
              rounded == (2 * edges + nodes) \div (2 * nodes)
          IN inj'[ret'.inst].num_edges_local
               = <<IF rounded < 1 THEN 1 ELSE rounded>>]_vars

\* C14: targets=None resolves to all node ids 0 .. N-1, a boolean mask to the
\* list of its set positions, an index list to itself; and an attack whose
\* resolved target list is empty fails with a validation error whatever the
\* other arguments are.
C14_TargetsResolved ==
  [][\A a \in Instances :
       LET t == ret'.arg.targets
           none == \/ (t.kind = "mask" /\ t.set = {})
                   \/ (t.kind = "index" /\ t.list = <<>>)
       IN (ret'.op = "attack" /\ ret'.inst = a
             /\ inj[a].is_setup /\ inj[a].is_reset)
          => /\ ret'.err = "" =>
                  /\ t.kind = "none" =>
                       inj'[a].targets = <<[i \in 1 .. NumNodes |-> i - 1]>>
                  /\ t.kind = "mask" =>
                       /\ Range(inj'[a].targets[1]) = t.set
                       /\ Len(inj'[a].targets[1]) = Cardinality(t.set)
                       /\ \A i, j \in DOMAIN inj'[a].targets[1] :
                            i < j => inj'[a].targets[1][i] < inj'[a].targets[1][j]
                  /\ t.kind = "index" => inj'[a].targets = <<t.list>>
             /\ none => ret'.err \in {"ValueError", "RuntimeError", "TypeError",
                                      "AssertionError"}]_vars

\* C15: every attack given num_edges_local together with num_edges_global, or
\* feat_limits together with feat_budgets, or a feat_limits mapping with a
\* key other than 'min' and 'max', is rejected with an error and does not
\* count as an attack (the attacker stays as reset as it was).
C15_ExclusivePairsRejected ==
  [][\A a \in Instances :
       LET args == ret'.arg
       IN ( /\ ret'.op = "attack" /\ ret'.inst = a
            /\ \/ (args.num_edges_local # None /\ args.num_edges_global # None)
               \/ (args.feat_limits.type # "none" /\ args.feat_budgets # None)
               \/ (args.feat_limits.type = "dict"
                     /\ DOMAIN args.feat_limits.map \ {"min", "max"} # {}) )
          => /\ ret'.err # ""
             /\ inj'[a].is_reset = inj[a].is_reset
             /\ inj'[a].feat_limits = inj[a].feat_limits
             /\ inj'[a].feat_budgets = inj[a].feat_budgets]_vars

\* an attack that passed the state and budget checks and was refused for
\* giving both feat_limits and feat_budgets
C15_Witness ==
  /\ ret.op = "attack"
  /\ ret.err = "RuntimeError"
  /\ ret.arg.feat_limits.type = "tuple"
  /\ ret.arg.feat_budgets = Some(1)
  /\ ret.arg.num_edges_local = None
  /\ inj["A"].is_reset
  /\ inj["A"].num_budgets # None

(***************************************************************************)
(* The ledger of InjectionAttacker                                         *)
(***************************************************************************)

\* C16: in every state reached through reset, attack, inject_node and
\* inject_edge, each endpoint of each edge key of the injected-edge ledger is
\* an original node id (0 .. N-1) or an id of the injected-node list, and each
\* edge key appears at most once.
C16_LedgerEndpointsKnown ==
  LET s == inj["A"]
      known == (0 .. (Len(BaseX) - 1)) \cup {s.injected_nodes[i] : i \in DOMAIN s.injected_nodes}
  IN /\ \A i \in DOMAIN s.injected_edges :
          /\ s.injected_edges[i].key[1] \in known
          /\ s.injected_edges[i].key[2] \in known
     /\ \A i, j \in DOMAIN s.injected_edges :
          s.injected_edges[i].key = s.injected_edges[j].key => i = j

\* C17: inject_node(node, feat) with an explicit feat that violates the active
\* feature constraint (more than feat_budgets nonzero entries when
\* feat_budgets is set; otherwise an entry below the lower or above the upper
\* bound of feat_limits) fails; a call that fails appends to neither list; a
\* call that returns appends the node to the one list and one feature
\* vector, the caller's when one was given, to the other at the same
\* position, leaving the earlier entries of both in place; and the two lists
\* always have the same length.
C17_InjectNodeChecked ==
  /\ [](\A a \in Instances :
          Len(inj[a].injected_nodes) = Len(inj[a].injected_feats))
  /\ [][\A a \in Instances :
          (ret'.op = "inject_node" /\ ret'.inst = a) =>
            LET s == inj[a]
                n == Len(s.injected_nodes)
                given == ret'.arg[2] # None
                v == ret'.arg[2][1]
                violates ==
                  IF s.feat_budgets # None
                  THEN Cardinality({i \in DOMAIN v : v[i] # 0}) > s.feat_budgets[1]
                  ELSE /\ s.feat_limits # None
                       /\ \E i \in DOMAIN v : \/ v[i] < s.feat_limits[1][1]
                                              \/ v[i] > s.feat_limits[1][2]
            IN /\ (given /\ violates) => ret'.err # ""
               /\ ret'.err # "" =>
                    /\ inj'[a].injected_nodes = s.injected_nodes
                    /\ inj'[a].injected_feats = s.injected_feats
               /\ ret'.err = "" =>
                    /\ Len(inj'[a].injected_nodes) = n + 1
                    /\ Len(inj'[a].injected_feats) = n + 1
                    /\ inj'[a].injected_nodes[n + 1] = ret'.arg[1]
                    /\ given => inj'[a].injected_feats[n + 1].v = v
                    /\ \A i \in 1 .. n :
                         /\ inj'[a].injected_nodes[i] = s.injected_nodes[i]
                         /\ inj'[a].injected_feats[i] = s.injected_feats[i]]_vars

\* a vector above the upper bound refused under feat_limits on a ledger that
\* holds two nodes with different feature vectors, both left in place
C17_Witness ==
  /\ ret.op = "inject_node"
  /\ ret.arg = <<NumNodes, Some(<<1, 3>>)>>
  /\ ret.err = "AssertionError"
  /\ inj["A"].feat_budgets = None
  /\ inj["A"].feat_limits = Some(<<1, 2>>)
  /\ inj["A"].injected_nodes = <<NumNodes + 1, NumNodes>>
  /\ Len(inj["A"].injected_feats) = 2
  /\ inj["A"].injected_feats[1].v = <<1, 1>>
  /\ inj["A"].injected_feats[2].v = <<2, 1>>

\* C18: when PRBCDAttack.attack has completed, every flipped edge returned by
\* the final sampler is in the ledger exactly once, under removed_edges if and
\* only if it is an edge of the original graph and under added_edges
\* otherwise, with the iteration index of its position in the flipped-edge
\* sequence (0, 1, 2, ...), and the ledger holds nothing else.
C18_FlipsInLedger ==
  (pret.op = "attack" /\ pret.result = "ok") =>
    LET flipped == pret.flipped
        removed == prbcd.removed_edges
        added == prbcd.added_edges
        entries(d, e) == {i \in DOMAIN d : d[i].key = e}
    IN /\ \A k \in DOMAIN flipped :
            LET e == flipped[k]
            IN IF e \in BaseEdges
               THEN /\ Cardinality(entries(removed, e)) = 1
                    /\ \A i \in entries(removed, e) : removed[i].it = k - 1
                    /\ entries(added, e) = {}
               ELSE /\ Cardinality(entries(added, e)) = 1
                    /\ \A i \in entries(added, e) : added[i].it = k - 1
                    /\ entries(removed, e) = {}
       /\ Len(removed) + Len(added) = Len(flipped)

\* a completed attack that removed the edge (0, 1) of the original graph at
\* iteration 0 and added the missing edge (0, 2) at iteration 1
C18_Witness ==
  /\ pret.op = "attack"
  /\ pret.result = "ok"
  /\ pret.flipped = <<<<0, 1>>, <<0, 2>>>>
  /\ prbcd.removed_edges = <<[key |-> <<0, 1>>, it |-> 0]>>
  /\ prbcd.added_edges = <<[key |-> <<0, 2>>, it |-> 1]>>


\* C19: InjectionAttacker.reset() leaves the ledger empty, so that the three
\* accessors called right after it return None; it sets num_budgets,
\* feat_limits, feat_budgets, num_edges_global and num_edges_local to None;
\* and it empties the cache of data(), so that a data() call that finds the
\* cache as reset() left it and returns a graph has built it from the ledger
\* of the moment of the call.
C19_ResetClearsEverything ==
  /\ [][ret'.op = "reset" =>
          LET s == inj'[ret'.inst]
          IN /\ s.injected_nodes = <<>>
             /\ s.injected_edges = <<>>
             /\ s.injected_feats = <<>>
             /\ s.num_budgets = None
             /\ s.feat_limits = None
             /\ s.feat_budgets = None
             /\ s.num_edges_global = None
             /\ s.num_edges_local = None
             /\ cache' = <<>>]_vars
  /\ [][(ret.op = "reset"
           /\ ret'.op \in {"injected_nodes", "injected_edges", "injected_feats"}
           /\ ret'.inst = ret.inst) =>
          (ret'.err = "" /\ ret'.val = None)]_vars
  /\ [][(ret'.op = "data" /\ ret'.err = "" /\ cache = <<>>) =>
          LET s == inj[ret'.inst]
              g == ret'.val[1]
              symmetric == ret'.arg.symmetric
              edges == BaseEdges \cup {s.injected_edges[i].key : i \in DOMAIN s.injected_edges}
          IN /\ g.x = BaseX \o [i \in DOMAIN s.injected_feats |-> s.injected_feats[i].v]
             /\ g.edge_index = IF symmetric
                               THEN edges \cup {<<e[2], e[1]>> : e \in edges}
                               ELSE edges]_vars

\* reset() has just returned on an attacker whose data() had returned a graph
\* with an injected node before
C19_Witness ==
  /\ ret.op = "reset"
  /\ solo.val # None
  /\ Len(solo.val[1].x) = NumNodes + 1
  /\ cache = <<>>
  /\ inj["A"].injected_nodes = <<>>
  /\ inj["A"].injected_feats = <<>>
  /\ inj["A"].num_budgets = None


\* C20: the base graph is never mutated: after any sequence of reset, attack,
\* inject_node, inject_edge and data calls on an InjectionAttacker and of
\* reset and attack on a PRBCDAttack, its feature matrix and its edge list
\* are the ones it had at the start; and data() adds the injected features
\* and edges to the copy it returns: the graph returned holds the rows of the
\* base graph followed by injected rows, and the edges of the base graph.
C20_BaseGraphUntouched ==
  /\ ori_data = [x |-> BaseX, edge_index |-> BaseEdges]
  /\ (ret.op = "data" /\ ret.err = "") =>
       /\ Len(ret.val[1].x) > NumNodes
       /\ SubSeq(ret.val[1].x, 1, NumNodes) = BaseX
       /\ BaseEdges \subseteq ret.val[1].edge_index

\* data() has returned a graph with one injected row and an injected edge,
\* and a PRBCD attack has put a flipped edge into its ledger, while the base
\* graph is what it was
C20_Witness ==
  /\ ret.op = "data"
  /\ ret.err = ""
  /\ Len(ret.val[1].x) = NumNodes + 1
  /\ <<0, 3>> \in ret.val[1].edge_index
  /\ pret.op = "attack"
  /\ pret.result = "ok"
  /\ Len(prbcd.added_edges) + Len(prbcd.removed_edges) = 1
  /\ prbcd._edge_index = Some("ori_edge_index")
  /\ ori_data.x = BaseX
  /\ <<0, 3>> \notin ori_data.edge_index


\* C21: num_edges_global bounds the edges of all injected nodes together:
\* when attack succeeds with num_edges_global = g, the resolved node budget
\* times the resolved num_edges_local is at most g.
C21_GlobalBoundsTotal ==
  \A a \in Instances :
    LET s == inj[a]
    IN (ret.op = "attack" /\ ret.inst = a /\ ret.err = ""
          /\ ret.arg.num_edges_global # None)
         => s.num_budgets[1] * s.num_edges_local[1] <= ret.arg.num_edges_global[1]


\* C22: every feature vector in the injected-feature list satisfies the
\* active feature constraint, also when inject_node generates it (feat=None):
\* with feat_budgets = k, 1 <= k <= number of features, the call does not fail
\* and stores a vector with one entry per feature and exactly k nonzero
\* entries; otherwise every entry of the stored vector lies within feat_limits.
C22_GeneratedFeatsValid ==
  /\ [](\A a \in Instances :
          LET s == inj[a]
          IN \A i \in DOMAIN s.injected_feats :
               LET v == s.injected_feats[i].v
               IN IF s.feat_budgets # None
                  THEN Cardinality({j \in DOMAIN v : v[j] # 0}) <= s.feat_budgets[1]
                  ELSE \A j \in DOMAIN v : /\ v[j] >= s.feat_limits[1][1]
                                           /\ v[j] <= s.feat_limits[1][2])
  /\ [][\A a \in Instances :
          (/\ ret'.op = "inject_node" /\ ret'.inst = a /\ ret'.arg[2] = None
           /\ inj[a].feat_budgets # None
           /\ inj[a].feat_budgets[1] \in 1 .. NumFeats) =>
            LET f == inj'[a].injected_feats
            IN /\ ret'.err = ""
               /\ Len(f) = Len(inj[a].injected_feats) + 1
               /\ f[Len(f)].dim = 1
               /\ Len(f[Len(f)].v) = NumFeats
               /\ Cardinality({j \in 1 .. NumFeats : f[Len(f)].v[j] # 0})
                    = inj[a].feat_budgets[1]]_vars


\* C23: in an accepted PRBCDAttack.attack the loss is the function its name
\* selects, the metric is the selected loss (metric=None), the caller's
\* callable, or the function a registry name stands for, and so no epoch
\* fails when the metric is evaluated in its early-stopping step.
C23_LossAndMetricSelected ==
  /\ [](prbcd.running =>
          /\ prbcd.loss \in {Some(<<"function", n>>) : n \in LossNames}
          /\ prbcd.metric \in {prbcd.loss, Some(<<"function", "callable">>)}
                                \cup {Some(<<"function", n>>) : n \in LossNames})
  /\ [](pret.result # "TypeError")


\* C24: with early stopping enabled, the block, edge index and weights that
\* get_flipped_edges hands to the final sampler were recorded as best state
\* during the current attack call, never in an attack that ran before the
\* last reset(), whatever the number of epochs and the metric values are.
C24_BestStateOfThisAttack ==
  [][(/\ prbcd.running
      /\ prbcd.step = prbcd.epochs
      /\ prbcd.with_early_stopping
      /\ pret'.op = "attack"
      /\ pret'.result \in {"ok", "AssertionError"})
       => /\ prbcd.best_fresh
          /\ \A i \in DOMAIN pret'.flipped :
                \E k \in DOMAIN prbcd.best_edge_index :
                  pret'.flipped[i] = prbcd.best_edge_index[k]]_vars

\* C25: InjectionAttacker.attack leaves its arguments unchanged: a feat_limits
\* mapping holds the same keys and values after the call as before, and a
\* second reset() + attack with the same argument objects succeeds with the
\* feat_limits the first one resolved.
C25_ArgumentsUnchanged ==
  \A a \in Instances :
    (ret.op = "attack" /\ ret.inst = a) =>
      /\ ret.val[1] = ret.arg.feat_limits
      /\ ret.err = "" =>
           LET again == InjAttack(IResetState(inj[a]),
                                  [ret.arg EXCEPT !.feat_limits = ret.val[1]])
           IN /\ again.err = ""
              /\ again.state.feat_limits = inj[a].feat_limits

====
